---- MODULE Spec2Model ----
(***************************************************************************)
(* Model of api.py: the Flask front end of the deepfake detector.          *)
(*                                                                         *)
(* The process starts by checking the model artifact, builds the detector  *)
(* and runs the server.  Each POST /detect request is a handler run whose  *)
(* statements interleave with the other requests' (Flask's server handles  *)
(* requests on threads); the only state they share is the uploads          *)
(* directory and the detector object.                                      *)
(***************************************************************************)
EXTENDS Integers, Sequences, FiniteSets, TLC

\* How many requests the server receives in a run.
NumRequests == 2

Requests == 1..NumRequests

(***************************************************************************)
(* Program constants                                                       *)
(***************************************************************************)

\* app.config['MAX_CONTENT_LENGTH'], in bytes.
MAX_CONTENT_LENGTH == 16 * 1024 * 1024

\* threshold=0.0001, in units of 1/10000 (probabilities are 0..10000).
Threshold == 1

\* The artifact get_model_path() names, and another *.pth of the directory.
ModelFile == "hybrid_deepfake_detector_improved.pth"
OtherFile == "hybrid_deepfake_detector.pth"

(***************************************************************************)
(* The environment the process starts in: whether training/models/trained  *)
(* exists and which *.pth files it holds.                                  *)
(***************************************************************************)
Environments ==
    { [dir |-> FALSE, pth |-> {}],
      [dir |-> TRUE,  pth |-> {}],
      [dir |-> TRUE,  pth |-> {OtherFile}],
      [dir |-> TRUE,  pth |-> {ModelFile, OtherFile}] }

\* os.path.exists(model_path)
ModelExists(e) == e.dir /\ ModelFile \in e.pth

(***************************************************************************)
(* Uploads.  A filename is a sequence of characters; a file's data is      *)
(* either an image (with the fake-probability the model gives it) or not   *)
(* decodable.                                                              *)
(***************************************************************************)
Images == { "img_fake", "img_real" }
Datas  == Images \cup { "corrupt" }

\* A POST /detect: the multipart body's `image` part (or none) and the
\* body's Content-Length.
Post(has_image, filename, data, content_length) ==
    [path |-> "/detect", has_image |-> has_image, filename |-> filename,
     data |-> data, content_length |-> content_length]

\* A GET of a page.
Get(path) ==
    [path |-> path, has_image |-> FALSE, filename |-> <<>>, data |-> "corrupt",
     content_length |-> 0]

\* The requests a client sends.
RequestInputs ==
    { Get("/"), Get("/health") }
    \cup
    { Post(FALSE, <<>>, "corrupt", n) :
        n \in { MAX_CONTENT_LENGTH, MAX_CONTENT_LENGTH + 1 } }
    \cup
    { Post(TRUE, <<"a">>, "img_real", MAX_CONTENT_LENGTH + 1),
      Post(TRUE, <<>>, "img_real", MAX_CONTENT_LENGTH),
      Post(TRUE, <<".", ".">>, "img_real", MAX_CONTENT_LENGTH),
      Post(TRUE, <<"b">>, "img_fake", MAX_CONTENT_LENGTH) }
    \cup
    { Post(TRUE, <<"a">>, d, MAX_CONTENT_LENGTH) : d \in Datas }
    \cup
    { Post(TRUE, <<"/", "a">>, d, MAX_CONTENT_LENGTH) : d \in { "img_fake", "corrupt" } }

(***************************************************************************)
(* werkzeug.utils.secure_filename                                          *)
(***************************************************************************)
Whitespace  == { " " }
AsciiAllowed == { "a", "b", "_", ".", "-" }

\* filename.replace(os.sep, " ")
ReplaceSep(s) == [i \in 1..Len(s) |-> IF s[i] = "/" THEN " " ELSE s[i]]

RECURSIVE LStrip(_, _)
LStrip(s, chars) ==
    IF s # <<>> /\ Head(s) \in chars THEN LStrip(Tail(s), chars) ELSE s

RECURSIVE RStrip(_, _)
RStrip(s, chars) ==
    IF s # <<>> /\ s[Len(s)] \in chars
    THEN RStrip(SubSeq(s, 1, Len(s) - 1), chars) ELSE s

\* str.strip(chars)
Strip(s, chars) == RStrip(LStrip(s, chars), chars)

\* "_".join(s.split()) for a string without leading or trailing whitespace
RECURSIVE JoinWords(_)
JoinWords(s) ==
    IF s = <<>> THEN <<>>
    ELSE IF Head(s) \in Whitespace
         THEN <<"_">> \o JoinWords(LStrip(s, Whitespace))
         ELSE <<Head(s)>> \o JoinWords(Tail(s))

\* _filename_ascii_strip_re.sub("", s)
AsciiStrip(s) == SelectSeq(s, LAMBDA c : c \in AsciiAllowed)

secure_filename(s) ==
    Strip(AsciiStrip(JoinWords(Strip(ReplaceSep(s), Whitespace))), { ".", "_" })

(***************************************************************************)
(* The detector (inference/deepfake_detector.py)                           *)
(***************************************************************************)

\* The device the detector picks when it is built.
DeviceFor(cuda) == [type |-> IF cuda THEN "cuda" ELSE "cpu"]

\* DeepfakeDetector(model_path=..., threshold=0.0001)
DeepfakeDetector(path, threshold, cuda) ==
    [model_path |-> path, threshold |-> threshold, device |-> DeviceFor(cuda)]

\* The model's fake probability for an image.
FakeProbability(d) == IF d = "img_fake" THEN 9000 ELSE 0

\* predict(path) on a readable image.
PredictResult(det, d) ==
    LET fake == FakeProbability(d)
        real == 10000 - fake
        isFake == fake > det.threshold
    IN  [status |-> "success",
         prediction |-> IF isFake THEN "FAKE" ELSE "REAL",
         confidence |-> IF isFake THEN fake ELSE real,
         fake_probability |-> fake,
         real_probability |-> real]

\* The exception predict(path) raises, or <<>> when it returns.
PredictRaises(fs, path) ==
    IF path \notin DOMAIN fs
    THEN << [type |-> "FileNotFoundError", msg |-> "No such file or directory"] >>
    ELSE IF fs[path].data \notin Images
         THEN << [type |-> "UnidentifiedImageError", msg |-> "cannot identify image file"] >>
         ELSE <<>>

(***************************************************************************)
(* Flask                                                                   *)
(***************************************************************************)

\* str(e), str(detector.device)
Str(x) == IF "msg" \in DOMAIN x THEN x.msg ELSE x.type

\* jsonify(d), returned with a status code
Jsonify(d, code) == [status |-> code, mimetype |-> "application/json", body |-> d]

\* The response Flask builds for an exception no handler catches
\* (werkzeug's HTTPException pages, and the 500 page).
ErrorPage(code) ==
    [status |-> code, mimetype |-> "text/html", body |-> [html |-> code]]

\* Variant: the limit excludes a body of exactly MAX_CONTENT_LENGTH bytes.
RequestEntityTooLargeInclusive(q) == q.content_length >= MAX_CONTENT_LENGTH

\* Werkzeug's check of the body's size when the form is first parsed.
RequestEntityTooLarge(q) == q.content_length > MAX_CONTENT_LENGTH

(***************************************************************************)
(* State                                                                   *)
(***************************************************************************)
VARIABLES
    env,        \* the models directory the process starts in
    cuda,       \* whether the machine has a CUDA device
    proc,       \* where the process is: "check", "init", "main", "serving", "exited"
    exitStatus, \* <<>> while running, <<n>> after sys.exit(n)
    stdout,     \* the lines printed
    detector,   \* the global `detector`: <<>> before it is bound, <<d>> after
    uploadsDir, \* whether ./uploads exists
    files,      \* ./uploads: name -> [writer, data]
    pc,         \* each request's position in detect_deepfake
    req,        \* each request's input
    filepath,   \* each request's `filepath` (the name under uploads/)
    result,     \* each request's `result`
    exc,        \* each request's caught exception `e`
    calls,      \* each request's calls with an effect outside the handler
    response    \* each request's response: <<>> until it is returned

vars == << env, cuda, proc, exitStatus, stdout, detector, uploadsDir, files,
           pc, req, filepath, result, exc, calls, response >>

startupVars == << env, cuda, proc, exitStatus, stdout, detector >>

NoInput == Get("")
NoResult == [status |-> "none"]
NoException == [type |-> "none", msg |-> ""]

Init ==
    /\ env \in Environments
    /\ cuda \in BOOLEAN
    /\ proc = "check"
    /\ exitStatus = <<>>
    /\ stdout = <<>>
    /\ detector = <<>>
    /\ uploadsDir = FALSE
    /\ files = <<>>
    /\ pc = [r \in Requests |-> "idle"]
    /\ req = [r \in Requests |-> NoInput]
    /\ filepath = [r \in Requests |-> <<>>]
    /\ result = [r \in Requests |-> NoResult]
    /\ exc = [r \in Requests |-> NoException]
    /\ calls = [r \in Requests |-> <<>>]
    /\ response = [r \in Requests |-> <<>>]

requestVars == << uploadsDir, files, pc, req, filepath, result, exc, calls, response >>

(***************************************************************************)
(* Startup (module level, then __main__)                                   *)
(***************************************************************************)

\* The lines printed when the artifact is missing.
MissingModelOutput(e) ==
    << "Model file not found", "Available model files:" >>
    \o (IF e.dir
        THEN (IF OtherFile \in e.pth THEN << OtherFile >> ELSE <<>>)
             \o (IF ModelFile \in e.pth THEN << ModelFile >> ELSE <<>>)
        ELSE << "No trained models directory found" >>)

\* Variant: the missing artifact is reported but the process goes on.
CheckModelNoExit ==
    /\ proc = "check"
    /\ proc' = "init"
    /\ stdout' = IF ModelExists(env) THEN stdout ELSE stdout \o MissingModelOutput(env)
    /\ UNCHANGED << env, cuda, detector, exitStatus >>
    /\ UNCHANGED requestVars

\* if not os.path.exists(model_path): print ...; sys.exit(1)
CheckModel ==
    /\ proc = "check"
    /\ IF ModelExists(env)
       THEN /\ proc' = "init"
            /\ UNCHANGED << exitStatus, stdout >>
       ELSE /\ proc' = "exited"
            /\ exitStatus' = << 1 >>
            /\ stdout' = stdout \o MissingModelOutput(env)
    /\ UNCHANGED << env, cuda, detector >>
    /\ UNCHANGED requestVars

\* detector = DeepfakeDetector(model_path=model_path, threshold=0.0001)
InitDetector ==
    /\ proc = "init"
    /\ detector' = << DeepfakeDetector(ModelFile, Threshold, cuda) >>
    /\ stdout' = stdout \o << "Loading model", "Model loaded successfully!" >>
    /\ proc' = "main"
    /\ UNCHANGED << env, cuda, exitStatus >>
    /\ UNCHANGED requestVars

\* app.run(debug=True, host='0.0.0.0', port=5000)
AppRun ==
    /\ proc = "main"
    /\ stdout' = stdout \o << "Starting Deepfake Detection API..." >>
    /\ proc' = "serving"
    /\ UNCHANGED << env, cuda, exitStatus, detector >>
    /\ UNCHANGED requestVars

(***************************************************************************)
(* POST /detect                                                            *)
(***************************************************************************)

Respond(r, resp) ==
    /\ response' = [response EXCEPT ![r] = << resp >>]
    /\ pc' = [pc EXCEPT ![r] = "done"]

Goto(r, label) ==
    /\ pc' = [pc EXCEPT ![r] = label]
    /\ UNCHANGED response

Call(r, name) == calls' = [calls EXCEPT ![r] = Append(@, name)]

\* uploads_dir / filename; Path('uploads') / '' is Path('uploads')
IsUploadsDir(path) == path = <<>>

\* @app.route: the first statement of the view function of a path.
Route(path) ==
    CASE path = "/" -> "index"
      [] path = "/detect" -> "files"
      [] path = "/health" -> "health"

\* The server hands a request to its view function.  Requests are numbered
\* in the order they arrive.
Arrive(r) ==
    /\ proc = "serving"
    /\ pc[r] = "idle"
    /\ IF r = 1 THEN TRUE ELSE pc[r - 1] # "idle"
    /\ \E q \in RequestInputs :
          /\ req' = [req EXCEPT ![r] = q]
          /\ Goto(r, Route(q.path))
    /\ UNCHANGED << uploadsDir, files, filepath, result, exc, calls >>
    /\ UNCHANGED startupVars

\* Variant: the empty filename is tested before the missing field.
CheckFilesFilenameFirst(r) ==
    /\ pc[r] = "files"
    /\ IF RequestEntityTooLarge(req[r])
       THEN Respond(r, ErrorPage(413))
       ELSE IF req[r].filename = <<>>
            THEN Respond(r, Jsonify([error |-> "No image selected", status |-> "error"], 400))
            ELSE IF ~req[r].has_image
                 THEN Respond(r, Jsonify([error |-> "No image provided", status |-> "error"], 400))
                 ELSE Goto(r, "filename")
    /\ UNCHANGED << uploadsDir, files, req, filepath, result, exc, calls >>
    /\ UNCHANGED startupVars

\* if 'image' not in request.files: return ..., 400
CheckFiles(r) ==
    /\ pc[r] = "files"
    /\ IF RequestEntityTooLarge(req[r])
       THEN Respond(r, ErrorPage(413))
       ELSE IF ~req[r].has_image
            THEN Respond(r, Jsonify([error |-> "No image provided", status |-> "error"], 400))
            ELSE Goto(r, "filename")
    /\ UNCHANGED << uploadsDir, files, req, filepath, result, exc, calls >>
    /\ UNCHANGED startupVars

\* Variant: the uploads directory is made before the filename is tested.
CheckFilenameAfterMkdir(r) ==
    /\ pc[r] = "filename"
    /\ uploadsDir' = TRUE
    /\ Call(r, "mkdir")
    /\ IF req[r].filename = <<>>
       THEN Respond(r, Jsonify([error |-> "No image selected", status |-> "error"], 400))
       ELSE Goto(r, "mkdir")
    /\ UNCHANGED << files, req, filepath, result, exc >>
    /\ UNCHANGED startupVars

\* if file.filename == '': return ..., 400
CheckFilename(r) ==
    /\ pc[r] = "filename"
    /\ IF req[r].filename = <<>>
       THEN Respond(r, Jsonify([error |-> "No image selected", status |-> "error"], 400))
       ELSE Goto(r, "mkdir")
    /\ UNCHANGED << uploadsDir, files, req, filepath, result, exc, calls >>
    /\ UNCHANGED startupVars

\* uploads_dir.mkdir(exist_ok=True)
Mkdir(r) ==
    /\ pc[r] = "mkdir"
    /\ uploadsDir' = TRUE
    /\ Call(r, "mkdir")
    /\ Goto(r, "save")
    /\ UNCHANGED << files, req, filepath, result, exc >>
    /\ UNCHANGED startupVars

\* Variant: every upload is saved under one fixed name.
ScratchPathFixed(q) == << "u" >>

\* filename = secure_filename(file.filename); filepath = uploads_dir / filename
ScratchPath(q) == secure_filename(q.filename)

\* file.save(filepath)
Save(r) ==
    LET path == ScratchPath(req[r]) IN
    /\ pc[r] = "save"
    /\ filepath' = [filepath EXCEPT ![r] = path]
    /\ Call(r, "save")
    /\ IF IsUploadsDir(path)
       THEN \* open('uploads', 'wb'): IsADirectoryError, outside the try
            /\ Respond(r, ErrorPage(500))
            /\ UNCHANGED files
       ELSE /\ files' = (path :> [writer |-> r, data |-> req[r].data]) @@ files
            /\ Goto(r, "predict")
    /\ UNCHANGED << uploadsDir, req, result, exc >>
    /\ UNCHANGED startupVars

\* result = detector.predict(filepath)
Predict(r) ==
    LET raised == PredictRaises(files, filepath[r]) IN
    /\ pc[r] = "predict"
    /\ Call(r, "predict")
    /\ IF raised # <<>>
       THEN /\ exc' = [exc EXCEPT ![r] = raised[1]]
            /\ Goto(r, "except")
            /\ UNCHANGED result
       ELSE /\ result' = [result EXCEPT ![r] =
                             PredictResult(detector[1], files[filepath[r]].data)]
            /\ Goto(r, "unlink")
            /\ UNCHANGED exc
    /\ UNCHANGED << uploadsDir, files, req, filepath >>
    /\ UNCHANGED startupVars

\* path \ {name}
Remove(fs, path) == [p \in DOMAIN fs \ { path } |-> fs[p]]

\* filepath.unlink()   (in the try block)
Unlink(r) ==
    /\ pc[r] = "unlink"
    /\ Call(r, "unlink")
    /\ IF filepath[r] \in DOMAIN files
       THEN /\ files' = Remove(files, filepath[r])
            /\ Goto(r, "return")
            /\ UNCHANGED exc
       ELSE /\ exc' = [exc EXCEPT ![r] =
                          [type |-> "FileNotFoundError", msg |-> "No such file or directory"]]
            /\ Goto(r, "except")
            /\ UNCHANGED files
    /\ UNCHANGED << uploadsDir, req, filepath, result >>
    /\ UNCHANGED startupVars

\* return jsonify(result)
ReturnResult(r) ==
    /\ pc[r] = "return"
    /\ Respond(r, Jsonify(result[r], 200))
    /\ UNCHANGED << uploadsDir, files, req, filepath, result, exc, calls >>
    /\ UNCHANGED startupVars

\* The body of the 500 the except block returns.
ErrorBody(e) == [error |-> Str(e), status |-> "error"]

\* Variant: the except block returns without cleaning up.
ExceptExistsNoCleanup(r) ==
    /\ pc[r] = "except"
    /\ Respond(r, Jsonify(ErrorBody(exc[r]), 500))
    /\ UNCHANGED << uploadsDir, files, req, filepath, result, exc, calls >>
    /\ UNCHANGED startupVars

\* except Exception as e: if filepath.exists(): ... else return ..., 500
ExceptExists(r) ==
    /\ pc[r] = "except"
    /\ IF filepath[r] \in DOMAIN files
       THEN Goto(r, "except_unlink")
       ELSE Respond(r, Jsonify(ErrorBody(exc[r]), 500))
    /\ UNCHANGED << uploadsDir, files, req, filepath, result, exc, calls >>
    /\ UNCHANGED startupVars

\* filepath.unlink(); return jsonify({'error': str(e), 'status': 'error'}), 500
ExceptUnlink(r) ==
    /\ pc[r] = "except_unlink"
    /\ Call(r, "unlink")
    /\ IF filepath[r] \in DOMAIN files
       THEN /\ files' = Remove(files, filepath[r])
            /\ Respond(r, Jsonify(ErrorBody(exc[r]), 500))
       ELSE \* FileNotFoundError raised inside the except block
            /\ Respond(r, ErrorPage(500))
            /\ UNCHANGED files
    /\ UNCHANGED << uploadsDir, req, filepath, result, exc >>
    /\ UNCHANGED startupVars

(***************************************************************************)
(* GET / and GET /health                                                   *)
(***************************************************************************)

\* return render_template_string(HTML_TEMPLATE)
Index(r) ==
    /\ pc[r] = "index"
    /\ Respond(r, [status |-> 200, mimetype |-> "text/html",
                   body |-> [html |-> "HTML_TEMPLATE"]])
    /\ UNCHANGED << uploadsDir, files, req, filepath, result, exc, calls >>
    /\ UNCHANGED startupVars

\* Variant: /health reports a fixed threshold of 0.5.
HealthBodyFixedThreshold(det) ==
    [status |-> "healthy", model_loaded |-> TRUE,
     threshold |-> 5000, device |-> Str(det.device)]

\* The body of /health.
HealthBody(det) ==
    [status |-> "healthy", model_loaded |-> TRUE,
     threshold |-> det.threshold, device |-> Str(det.device)]

\* return jsonify({...})
HealthCheck(r) ==
    /\ pc[r] = "health"
    /\ Respond(r, Jsonify(HealthBody(detector[1]), 200))
    /\ UNCHANGED << uploadsDir, files, req, filepath, result, exc, calls >>
    /\ UNCHANGED startupVars

Next ==
    \/ CheckModel
    \/ InitDetector
    \/ AppRun
    \/ \E r \in Requests :
        \/ Arrive(r)
        \/ CheckFiles(r)
        \/ CheckFilename(r)
        \/ Mkdir(r)
        \/ Save(r)
        \/ Predict(r)
        \/ Unlink(r)
        \/ ReturnResult(r)
        \/ ExceptExists(r)
        \/ ExceptUnlink(r)
        \/ Index(r)
        \/ HealthCheck(r)

Spec == Init /\ [][Next]_vars

(***************************************************************************)
(* Properties                                                              *)
(***************************************************************************)

Done(r) == pc[r] = "done"
Resp(r) == response[r][1]
IsDetect(r) == pc[r] # "idle" /\ req[r].path = "/detect"

\* The files of ./uploads that request r wrote.
WrittenBy(r) == { p \in DOMAIN files : files[p].writer = r }

\* How often request r made the call `name`.
CallCount(r, name) ==
    Cardinality({ i \in 1..Len(calls[r]) : calls[r][i] = name })

\* detector.predict(filepath) was called for r and raised / returned.
PredictRaised(r) ==
    CallCount(r, "predict") > 0 /\ result[r] = NoResult
PredictReturned(r) == result[r] # NoResult

\* A response that is JSON with status "error".
IsJsonError(resp) ==
    /\ resp.mimetype = "application/json"
    /\ "status" \in DOMAIN resp.body
    /\ resp.body.status = "error"

\* C1: once a /detect handler has returned (200, 400, 413 or 500), no file
\* that the request wrote is left in the uploads directory.
C1_ScratchFileRemoved ==
    \A r \in Requests : Done(r) => WrittenBy(r) = {}

\* Two requests have returned, one with 200 and one with the 500 of a failed
\* detection, and both had saved their upload.
C1_Witness ==
    \E r, s \in Requests :
        /\ Done(r) /\ Done(s)
        /\ Resp(r).status = 200 /\ CallCount(r, "save") = 1
        /\ Resp(s).status = 500 /\ CallCount(s, "save") = 1
        /\ exc[s].type = "UnidentifiedImageError"

\* C2: a /detect request within the size limit gets 400 with the body
\* {error: "No image provided", status: "error"} when it has no `image`
\* field, 400 with {error: "No image selected", status: "error"} when the
\* field's filename is empty, and 400 in no other case; the missing field
\* wins over the empty filename.
C2_ClientInputErrors ==
    \A r \in Requests :
        (Done(r) /\ IsDetect(r) /\ req[r].content_length <= MAX_CONTENT_LENGTH) =>
            /\ ~req[r].has_image =>
                 /\ Resp(r).status = 400
                 /\ Resp(r).mimetype = "application/json"
                 /\ Resp(r).body = [error |-> "No image provided", status |-> "error"]
            /\ (req[r].has_image /\ req[r].filename = <<>>) =>
                 /\ Resp(r).status = 400
                 /\ Resp(r).mimetype = "application/json"
                 /\ Resp(r).body = [error |-> "No image selected", status |-> "error"]
            /\ Resp(r).status = 400 => (~req[r].has_image \/ req[r].filename = <<>>)

\* Both 400s have been returned.
C2_Witness ==
    \E r, s \in Requests :
        /\ Done(r) /\ IsDetect(r) /\ ~req[r].has_image
        /\ Resp(r).status = 400
        /\ Done(s) /\ IsDetect(s) /\ req[s].has_image /\ req[s].filename = <<>>
        /\ Resp(s).status = 400

\* C3: when detector.predict raised, the handler answers 500 with the JSON
\* body {error: <the exception's message>, status: "error"} and no file the
\* request wrote is left.
C3_DetectionFailureHandled ==
    \A r \in Requests :
        (Done(r) /\ PredictRaised(r)) =>
            /\ Resp(r) = Jsonify([error |-> exc[r].msg, status |-> "error"], 500)
            /\ WrittenBy(r) = {}

\* C4: every response with an error status is JSON with status "error".
C4_EveryErrorIsJson ==
    \A r \in Requests :
        (Done(r) /\ Resp(r).status >= 400) => IsJsonError(Resp(r))

\* C5: a /detect request whose body is larger than 16 MiB is rejected (413)
\* before any call is made: nothing is saved and predict is not called; a
\* body of 16 MiB or less is never answered 413.
C5_OversizeRejectedFirst ==
    \A r \in Requests :
        IsDetect(r) =>
            /\ req[r].content_length > 16 * 1024 * 1024 =>
                 /\ calls[r] = <<>>
                 /\ WrittenBy(r) = {}
                 /\ pc[r] \in { "files", "done" }
                 /\ Done(r) => Resp(r).status = 413
            /\ (req[r].content_length <= 16 * 1024 * 1024 /\ Done(r)) =>
                 Resp(r).status # 413

\* An oversize upload was rejected and one of exactly 16 MiB was served.
C5_Witness ==
    \E r, s \in Requests :
        /\ Done(r) /\ IsDetect(r) /\ req[r].has_image
        /\ req[r].content_length = 16 * 1024 * 1024 + 1
        /\ Resp(r).status = 413
        /\ Done(s) /\ IsDetect(s)
        /\ req[s].content_length = 16 * 1024 * 1024
        /\ Resp(s).status = 200

\* C6: when detector.predict returned for a request, the handler answers 200
\* with exactly that value as the JSON body.
C6_ResultReturnedUnmodified ==
    \A r \in Requests :
        (Done(r) /\ PredictReturned(r)) => Resp(r) = Jsonify(result[r], 200)

\* C7: the detector is built and the server started only when the model
\* artifact exists; when it is missing the process prints the *.pth files
\* of the directory (or that there is none) and exits with status 1, and no
\* request is ever handled.
C7_StartupOrdering ==
    /\ (detector # <<>> \/ proc \in { "init", "main", "serving" }) => ModelExists(env)
    /\ proc \in { "main", "serving" } => detector # <<>>
    /\ (\E r \in Requests : pc[r] # "idle") => (proc = "serving" /\ ModelExists(env))
    /\ ~ModelExists(env) => proc \in { "check", "exited" }
    /\ proc = "exited" =>
         /\ ~ModelExists(env)
         /\ exitStatus # <<>> /\ exitStatus[1] # 0
         /\ detector = <<>>
         /\ \A f \in env.pth : \E i \in 1..Len(stdout) : stdout[i] = f
         /\ ~env.dir =>
              \E i \in 1..Len(stdout) : stdout[i] = "No trained models directory found"
    /\ proc # "exited" => exitStatus = <<>>

\* The process has exited for want of the artifact, another *.pth being there.
C7_Witness ==
    /\ proc = "exited"
    /\ env.dir /\ env.pth = { OtherFile }
    /\ exitStatus = << 1 >>

\* C8: /health answers 200 with {status: "healthy", model_loaded: true,
\* threshold, device} of the detector as it was built at startup, and the
\* detector is the one built at startup whatever requests were handled.
C8_HealthReflectsStartup ==
    /\ proc \in { "main", "serving" } =>
         detector = << [model_path |-> ModelFile, threshold |-> Threshold,
                        device |-> [type |-> IF cuda THEN "cuda" ELSE "cpu"]] >>
    /\ \A r \in Requests :
         (Done(r) /\ req[r].path = "/health") =>
             /\ Resp(r).status = 200
             /\ Resp(r).mimetype = "application/json"
             /\ Resp(r).body = [status |-> "healthy", model_loaded |-> TRUE,
                                threshold |-> Threshold,
                                device |-> IF cuda THEN "cuda" ELSE "cpu"]

\* /health has answered, a /detect request having been handled.
C8_Witness ==
    \E r, s \in Requests :
        /\ r < s
        /\ Done(r) /\ IsDetect(r) /\ CallCount(r, "unlink") = 1
        /\ Done(s) /\ req[s].path = "/health"
        /\ cuda

\* A valid upload: an image, within the size limit, whose filename does not
\* sanitize to the empty string.
ValidUpload(r) ==
    /\ IsDetect(r)
    /\ req[r].has_image
    /\ req[r].content_length <= MAX_CONTENT_LENGTH
    /\ secure_filename(req[r].filename) # <<>>
    /\ req[r].data \in Images

\* The answer a valid upload gets when nothing interferes.
OwnVerdict(r) == Jsonify(PredictResult(detector[1], req[r].data), 200)

\* C9: a valid upload gets an answer other than its own verdict (another
\* upload's verdict, or a 500) only when another request saved an upload
\* whose filename sanitizes to the same name; and that does happen.
C9_RaceOnSharedScratchPath ==
    \A r \in Requests :
        (Done(r) /\ ValidUpload(r) /\ Resp(r) # OwnVerdict(r)) =>
            \E s \in Requests \ { r } :
                /\ IsDetect(s)
                /\ CallCount(s, "save") = 1
                /\ secure_filename(req[s].filename) = secure_filename(req[r].filename)

\* Two valid uploads with different filenames and the same scratch path: one
\* got the other's verdict, the other a 500 for the missing file.
C9_Witness ==
    \E r, s \in Requests :
        /\ r # s
        /\ Done(r) /\ ValidUpload(r)
        /\ Done(s) /\ ValidUpload(s)
        /\ req[r].filename # req[s].filename
        /\ req[r].data # req[s].data
        /\ Resp(r) = OwnVerdict(s)
        /\ Resp(s).status = 500
        /\ exc[s].type = "FileNotFoundError"

\* C10: predict is called at most once for a request, and a request answered
\* 400 made no call at all: it left no file, and the uploads directory
\* exists only if some request called mkdir.
C10_SingleAttemptAndValidationFirst ==
    /\ \A r \in Requests :
         /\ CallCount(r, "predict") <= 1
         /\ (Done(r) /\ IsDetect(r) /\ Resp(r).status = 400) =>
              /\ calls[r] = <<>>
              /\ WrittenBy(r) = {}
    /\ uploadsDir => \E r \in Requests : CallCount(r, "mkdir") > 0

\* A request was answered 400 having made no call, and another request's
\* only predict call failed and was answered 500.
C10_Witness ==
    \E r, s \in Requests :
        /\ Done(r) /\ IsDetect(r) /\ Resp(r).status = 400 /\ calls[r] = <<>>
        /\ Done(s) /\ PredictRaised(s) /\ CallCount(s, "predict") = 1
        /\ Resp(s).status = 500

====
